---- MODULE Spec2Model ----
(***************************************************************************)
(* A model of parched.py: the two package-metadata parsers PacmanPackage   *)
(* (the flat `key = value` reader of .PKGINFO) and PKGBUILD (the shlex     *)
(* based recipe tokenizer, the substitution pass and the mapper).          *)
(*                                                                         *)
(* Python values are tagged records [t |-> tag, v |-> payload]:            *)
(*   "str"   a string, a sequence of one-character strings                 *)
(*   "list"  a list of strings (a sequence of such sequences)              *)
(*   "dict"  the checksums mapping, a function from keys to lists          *)
(*   "int", "float", "bool", "datetime", "none"                            *)
(*   "symbols", "var_map", "checksum_fields", "symbol_map", "arrays":      *)
(*           the parser's own containers, which are attributes of the      *)
(*           same object the parsed names are written to with setattr.     *)
(* An object (self.__dict__) is a function from attribute names (strings)  *)
(* to values.                                                              *)
(***************************************************************************)
EXTENDS Integers, Sequences, FiniteSets, TLC

VARIABLES
    kind,          \* "PKGBUILD" or "PacmanPackage": the class constructed
    name_given,    \* the constructor got a path (name)
    obj_given,     \* the constructor got an open stream / archive object
    member,        \* the archive holds a .PKGINFO member
    stream,        \* the file or archive: "unopened", "open", "closed"
    should_close,  \* the constructor's local should_close
    pc,            \* position of the constructor / parser
    exc,           \* the exception that left the constructor, or "none"
    input,         \* raw tokens (PKGBUILD) or lines (.PKGINFO) not yet read
    source,        \* the whole input: every raw token / line, in order
    in_function,   \* PKGBUILD._parse's local in_function
    symbols,       \* the dict object created as self._symbols
    symbols0,      \* the symbol table as tokenized, before substitution
    todo,          \* names the running for-loop has not visited yet
    self           \* the attributes of the object under construction

vars == <<kind, name_given, obj_given, member, stream, should_close, pc, exc,
          input, source, in_function, symbols, symbols0, todo, self>>

(***************************************************************************)
(* Python strings and the str methods the code calls.                      *)
(***************************************************************************)
Str(v) == [t |-> "str", v |-> v]
List(v) == [t |-> "list", v |-> v]
NoneVal == [t |-> "none", v |-> <<>>]

\* The characters of [\w\d_] that the model's inputs use.
WordChars ==
    {"a", "b", "c", "d", "e", "f", "g", "h", "i", "k", "l", "m", "n", "o",
     "p", "r", "s", "t", "u", "v", "x", "y", "z", "_",
     "0", "1", "2", "3", "4", "5", "6", "7", "8", "9"}

Whitespace == {" ", "\n", "\t"}

Last(s) == s[Len(s)]

StartsAt(s, i, p) ==
    /\ i >= 1
    /\ i + Len(p) - 1 <= Len(s)
    /\ SubSeq(s, i, i + Len(p) - 1) = p

\* str.find / str.rfind, 1-based, 0 when p does not occur (Python: -1).
Find(s, p) ==
    LET hits == {i \in 1..Len(s) : StartsAt(s, i, p)}
    IN IF hits = {} THEN 0 ELSE CHOOSE i \in hits : \A j \in hits : i <= j

RFind(s, p) ==
    LET hits == {i \in 1..Len(s) : StartsAt(s, i, p)}
    IN IF hits = {} THEN 0 ELSE CHOOSE i \in hits : \A j \in hits : i >= j

RECURSIVE LStrip(_, _)
LStrip(s, cs) ==
    IF s # <<>> /\ Head(s) \in cs THEN LStrip(Tail(s), cs) ELSE s

RECURSIVE RStrip(_, _)
RStrip(s, cs) ==
    IF s # <<>> /\ Last(s) \in cs
    THEN RStrip(SubSeq(s, 1, Len(s) - 1), cs)
    ELSE s

\* str.strip(chars)
Strip(s, cs) == RStrip(LStrip(s, cs), cs)

\* str.partition(sep): <<before, sep or "", after>>
Partition(s, sep) ==
    LET i == Find(s, sep)
    IN IF i = 0 THEN <<s, <<>>, <<>>>>
       ELSE <<SubSeq(s, 1, i - 1), sep, SubSeq(s, i + Len(sep), Len(s))>>

\* str.rpartition(sep): <<before, sep or "", after>>
RPartition(s, sep) ==
    LET i == RFind(s, sep)
    IN IF i = 0 THEN <<<<>>, <<>>, s>>
       ELSE <<SubSeq(s, 1, i - 1), sep, SubSeq(s, i + Len(sep), Len(s))>>

\* str.replace(old, new, 1)
ReplaceFirst(s, old, new) ==
    LET i == Find(s, old)
    IN IF i = 0 THEN s
       ELSE SubSeq(s, 1, i - 1) \o new \o SubSeq(s, i + Len(old), Len(s))

\* str.replace(old, new): every non-overlapping occurrence, left to right
RECURSIVE ReplaceAll(_, _, _)
ReplaceAll(s, old, new) ==
    LET i == Find(s, old)
    IN IF i = 0 THEN s
       ELSE SubSeq(s, 1, i - 1) \o new
            \o ReplaceAll(SubSeq(s, i + Len(old), Len(s)), old, new)

\* sep.join(parts)
RECURSIVE Join(_, _)
Join(parts, sep) ==
    IF parts = <<>> THEN <<>>
    ELSE IF Len(parts) = 1 THEN parts[1]
    ELSE parts[1] \o sep \o Join(Tail(parts), sep)

\* '"%s"' % s
Quoted(s) == <<"\"">> \o s \o <<"\"">>

\* `x in container` for the containers an attribute can hold: a substring
\* test on a str, an element test on a list or tuple.
IsSubstring(p, s) == p = <<>> \/ Find(s, p) > 0

InSeq(x, s) == \E i \in 1..Len(s) : s[i] = x

\* The number a string of decimal digits denotes; -1 when int() / float()
\* would raise ValueError (the inputs hold no sign, point or blank).
DigitChars == <<"0", "1", "2", "3", "4", "5", "6", "7", "8", "9">>

Digit(c) ==
    IF \E i \in 1..10 : DigitChars[i] = c
    THEN (CHOOSE i \in 1..10 : DigitChars[i] = c) - 1
    ELSE -1

RECURSIVE ParseNat(_)
ParseNat(s) ==
    IF s = <<>> THEN -1
    ELSE IF Digit(Last(s)) < 0 THEN -1
    ELSE IF Len(s) = 1 THEN Digit(Last(s))
    ELSE LET hi == ParseNat(SubSeq(s, 1, Len(s) - 1))
         IN IF hi < 0 THEN -1 ELSE 10 * hi + Digit(Last(s))

\* Python truthiness of a value: `if x:`
Truthy(x) ==
    IF x.t \in {"str", "list"} THEN x.v # <<>>
    ELSE IF x.t \in {"int", "float"} THEN x.v # 0
    ELSE IF x.t = "bool" THEN x.v
    ELSE x.t # "none"

(***************************************************************************)
(* shlex.split(s): POSIX word splitting with whitespace_split.  A quote    *)
(* opens a quoted stretch inside the current word; the word ends at        *)
(* unquoted whitespace.  A word that was quoted is kept even when empty.   *)
(* The result is [ok, v]; ok is FALSE for "No closing quotation".          *)
(* st is "ws" between words, "word" inside one, or the open quote.         *)
(***************************************************************************)
RECURSIVE ShlexScan(_, _, _, _)
ShlexScan(s, st, tok, out) ==
    IF s = <<>>
    THEN IF st = "ws" THEN [ok |-> TRUE, v |-> out]
         ELSE IF st = "word" THEN [ok |-> TRUE, v |-> Append(out, tok)]
         ELSE [ok |-> FALSE, v |-> out]
    ELSE LET c == Head(s)
             r == Tail(s)
         IN IF st = "ws"
            THEN IF c \in Whitespace THEN ShlexScan(r, "ws", <<>>, out)
                 ELSE IF c \in {"\"", "'"} THEN ShlexScan(r, c, <<>>, out)
                 ELSE ShlexScan(r, "word", <<c>>, out)
            ELSE IF st = "word"
            THEN IF c \in Whitespace
                 THEN ShlexScan(r, "ws", <<>>, Append(out, tok))
                 ELSE IF c \in {"\"", "'"} THEN ShlexScan(r, c, tok, out)
                 ELSE ShlexScan(r, "word", Append(tok, c), out)
            ELSE IF c = st THEN ShlexScan(r, "word", tok, out)
                 ELSE ShlexScan(r, st, Append(tok, c), out)

ShlexSplit(s) == ShlexScan(s, "ws", <<>>, <<>>)

(***************************************************************************)
(* Attribute and symbol names, as strings.                                 *)
(***************************************************************************)
N ==
    [name |-> <<"n", "a", "m", "e">>,
     version |-> <<"v", "e", "r", "s", "i", "o", "n">>,
     release |-> <<"r", "e", "l", "e", "a", "s", "e">>,
     description |-> <<"d", "e", "s", "c", "r", "i", "p", "t", "i", "o", "n">>,
     url |-> <<"u", "r", "l">>,
     licenses |-> <<"l", "i", "c", "e", "n", "s", "e", "s">>,
     groups |-> <<"g", "r", "o", "u", "p", "s">>,
     provides |-> <<"p", "r", "o", "v", "i", "d", "e", "s">>,
     depends |-> <<"d", "e", "p", "e", "n", "d", "s">>,
     optdepends |-> <<"o", "p", "t", "d", "e", "p", "e", "n", "d", "s">>,
     conflicts |-> <<"c", "o", "n", "f", "l", "i", "c", "t", "s">>,
     replaces |-> <<"r", "e", "p", "l", "a", "c", "e", "s">>,
     architectures |->
         <<"a", "r", "c", "h", "i", "t", "e", "c", "t", "u", "r", "e", "s">>,
     options |-> <<"o", "p", "t", "i", "o", "n", "s">>,
     backup |-> <<"b", "a", "c", "k", "u", "p">>,
     \* PacmanPackage
     builddate |-> <<"b", "u", "i", "l", "d", "d", "a", "t", "e">>,
     packager |-> <<"p", "a", "c", "k", "a", "g", "e", "r">>,
     is_forced |-> <<"i", "s", "_", "f", "o", "r", "c", "e", "d">>,
     size |-> <<"s", "i", "z", "e">>,
     files |-> <<"f", "i", "l", "e", "s">>,
     symbol_map |-> <<"_", "s", "y", "m", "b", "o", "l", "_", "m", "a", "p">>,
     arrays |-> <<"_", "a", "r", "r", "a", "y", "s">>,
     force |-> <<"f", "o", "r", "c", "e">>,
     conflict |-> <<"c", "o", "n", "f", "l", "i", "c", "t">>,
     group |-> <<"g", "r", "o", "u", "p">>,
     optdepend |-> <<"o", "p", "t", "d", "e", "p", "e", "n", "d">>,
     makepkgopt |-> <<"m", "a", "k", "e", "p", "k", "g", "o", "p", "t">>,
     depend |-> <<"d", "e", "p", "e", "n", "d">>,
     \* PKGBUILD
     install |-> <<"i", "n", "s", "t", "a", "l", "l">>,
     checksums |-> <<"c", "h", "e", "c", "k", "s", "u", "m", "s">>,
     noextract |-> <<"n", "o", "e", "x", "t", "r", "a", "c", "t">>,
     sources |-> <<"s", "o", "u", "r", "c", "e", "s">>,
     makedepends |-> <<"m", "a", "k", "e", "d", "e", "p", "e", "n", "d", "s">>,
     var_map |-> <<"_", "v", "a", "r", "_", "m", "a", "p">>,
     checksum_fields |->
         <<"_", "c", "h", "e", "c", "k", "s", "u", "m", "_",
           "f", "i", "e", "l", "d", "s">>,
     symbols |-> <<"_", "s", "y", "m", "b", "o", "l", "s">>,
     pkgname |-> <<"p", "k", "g", "n", "a", "m", "e">>,
     pkgver |-> <<"p", "k", "g", "v", "e", "r">>,
     pkgdesc |-> <<"p", "k", "g", "d", "e", "s", "c">>,
     pkgrel |-> <<"p", "k", "g", "r", "e", "l">>,
     source |-> <<"s", "o", "u", "r", "c", "e">>,
     arch |-> <<"a", "r", "c", "h">>,
     license |-> <<"l", "i", "c", "e", "n", "s", "e">>,
     md5sums |-> <<"m", "d", "5", "s", "u", "m", "s">>,
     sha1sums |-> <<"s", "h", "a", "1", "s", "u", "m", "s">>,
     sha256sums |-> <<"s", "h", "a", "2", "5", "6", "s", "u", "m", "s">>,
     sha384sums |-> <<"s", "h", "a", "3", "8", "4", "s", "u", "m", "s">>,
     sha512sums |-> <<"s", "h", "a", "5", "1", "2", "s", "u", "m", "s">>,
     md5 |-> <<"m", "d", "5">>,
     sha1 |-> <<"s", "h", "a", "1">>,
     sha256 |-> <<"s", "h", "a", "2", "5", "6">>,
     sha384 |-> <<"s", "h", "a", "3", "8", "4">>,
     sha512 |-> <<"s", "h", "a", "5", "1", "2">>,
     sums |-> <<"s", "u", "m", "s">>]

\* Package.__init__: the defaults every record starts with.
Package ==
    [a \in {N.name, N.version, N.release, N.description, N.url}
        |-> Str(<<>>)]
    @@ [a \in {N.licenses, N.groups, N.provides, N.depends, N.optdepends,
               N.conflicts, N.replaces, N.architectures, N.options, N.backup}
        |-> List(<<>>)]

(***************************************************************************)
(* class PKGBUILD                                                          *)
(***************************************************************************)
\* A variant of the rename table in which pkgrel shares the target of
\* pkgname.
var_map_colliding ==
    (N.pkgname :> N.name) @@ (N.pkgver :> N.version)
    @@ (N.pkgdesc :> N.description) @@ (N.pkgrel :> N.name)
    @@ (N.source :> N.sources) @@ (N.arch :> N.architectures)
    @@ (N.license :> N.licenses)

\* PKGBUILD.__init__: self._var_map
var_map ==
    (N.pkgname :> N.name) @@ (N.pkgver :> N.version)
    @@ (N.pkgdesc :> N.description) @@ (N.pkgrel :> N.release)
    @@ (N.source :> N.sources) @@ (N.arch :> N.architectures)
    @@ (N.license :> N.licenses)

\* A variant of the checksum names that leaves md5sums out.
checksum_fields_short ==
    <<N.sha1sums, N.sha256sums, N.sha384sums, N.sha512sums>>

\* PKGBUILD.__init__: self._checksum_fields
checksum_fields ==
    <<N.md5sums, N.sha1sums, N.sha256sums, N.sha384sums, N.sha512sums>>

\* PKGBUILD.__init__: the attributes set before the stream is opened.
PKGBUILD_init ==
    (N.install :> Str(<<>>))
    @@ (N.checksums :>
          [t |-> "dict",
           v |-> [k \in {N.md5, N.sha1, N.sha256, N.sha384, N.sha512}
                    |-> List(<<>>)]])
    @@ [a \in {N.noextract, N.sources, N.makedepends} |-> List(<<>>)]
    @@ (N.var_map :> [t |-> "var_map", v |-> <<>>])
    @@ (N.checksum_fields :> [t |-> "checksum_fields", v |-> <<>>])
    @@ (N.symbols :> [t |-> "symbols", v |-> <<>>])
    @@ Package

\* re.match(r"^[\w\d_]+=", token)
IsAssign(token) ==
    \E i \in 2..Len(token) :
        /\ token[i] = "="
        /\ \A j \in 1..(i - 1) : token[j] \in WordChars

\* PKGBUILD._clean
Clean(value) ==
    IF value # <<>> /\ Head(value) = "'" /\ Last(value) = "'"
    THEN Strip(value, {"'"})
    ELSE value

\* PKGBUILD._clean_array: [ok, v]; ok is FALSE when shlex.split raises.
CleanArray(value) == ShlexSplit(Strip(value, {"(", ")"}))

\* PKGBUILD._handle_assign: [exc, var, val].  value[0] raises IndexError
\* when nothing follows the "=".
HandleAssign(token) ==
    LET p == Partition(Strip(token, Whitespace), <<"=">>)
        var == p[1]
        value == p[3]
    IN IF value = <<>>
       THEN [exc |-> "IndexError", var |-> var, val |-> NoneVal]
       ELSE IF Head(value) = "(" /\ Last(value) = ")"
       THEN LET a == CleanArray(value)
            IN IF a.ok THEN [exc |-> "none", var |-> var, val |-> List(a.v)]
               ELSE [exc |-> "ValueError", var |-> var, val |-> NoneVal]
       ELSE [exc |-> "none", var |-> var, val |-> Str(Clean(value))]

\* PKGBUILD._parse, the inner `while in_array` loop: the opening token, the
\* raw tokens after it, the elements collected so far.  [exc, token, rest].
\* At the end of the stream get_token() returns None and _token[-1] raises
\* TypeError; an empty token raises IndexError.
RECURSIVE JoinArray(_, _, _)
JoinArray(token, rest, elements) ==
    IF rest = <<>>
    THEN [exc |-> "TypeError", token |-> token, rest |-> rest]
    ELSE LET tok == Head(rest)
         IN IF tok = <<"\n">> THEN JoinArray(token, Tail(rest), elements)
            ELSE IF tok = <<>>
            THEN [exc |-> "IndexError", token |-> token, rest |-> rest]
            ELSE IF Last(tok) = ")"
            THEN [exc |-> "none",
                  token |->
                      Join(<<ReplaceFirst(token, <<"=", "(">>,
                                          <<"=", "(", "\"">>) \o <<"\"">>,
                             Join(elements, <<" ">>),
                             Quoted(Strip(tok, {")"})) \o <<")">>>>,
                           <<" ">>),
                  rest |-> Tail(rest)]
            ELSE JoinArray(token, Tail(rest),
                           Append(elements, Quoted(Strip(tok, Whitespace))))

\* PKGBUILD._parse, one pass of the `while 1` loop over a token that is
\* neither the end of the stream nor skipped: [exc, rest, in_function,
\* symbols].
ParseToken(token, rest, infn, syms) ==
    LET j == IF Find(token, <<"=", "(">>) > 0 /\ ~(RFind(token, <<")">>) > 0)
             THEN JoinArray(token, rest, <<>>)
             ELSE [exc |-> "none", token |-> token, rest |-> rest]
    IN IF j.exc # "none"
       THEN [exc |-> j.exc, rest |-> j.rest, in_function |-> infn,
             symbols |-> syms]
       ELSE IF IsAssign(j.token)
       THEN LET h == HandleAssign(j.token)
            IN [exc |-> h.exc, rest |-> j.rest, in_function |-> infn,
                symbols |-> IF h.exc = "none"
                            THEN (h.var :> h.val) @@ syms
                            ELSE syms]
       ELSE IF j.token = <<"{">>
       THEN [exc |-> "none", rest |-> j.rest, in_function |-> TRUE,
             symbols |-> syms]
       ELSE IF j.token = <<"}">> /\ infn
       THEN [exc |-> "none", rest |-> j.rest, in_function |-> FALSE,
             symbols |-> syms]
       ELSE [exc |-> "none", rest |-> j.rest, in_function |-> infn,
             symbols |-> syms]

(***************************************************************************)
(* The substitution pass.                                                  *)
(***************************************************************************)
\* The length of the longest run of [\w\d_] characters of s from index i.
RECURSIVE WordRun(_, _)
WordRun(s, i) ==
    IF i <= Len(s) /\ s[i] \in WordChars THEN 1 + WordRun(s, i + 1) ELSE 0

\* PKGBUILD._symbol_regex, \$(?P<name>{[\w\d_]+}|[\w\d]+), tried at index i:
\* the length of the match (0: none) and group 'name'.
MatchAt(s, i) ==
    LET b == IF i + 1 <= Len(s) /\ s[i + 1] = "{" THEN WordRun(s, i + 2) ELSE 0
        k == WordRun(s, i + 1)
    IN IF s[i] # "$" THEN [len |-> 0, name |-> <<>>]
       ELSE IF b > 0 /\ i + 2 + b <= Len(s) /\ s[i + 2 + b] = "}"
       THEN [len |-> b + 3, name |-> SubSeq(s, i + 1, i + 2 + b)]
       ELSE IF k > 0
       THEN [len |-> k + 1, name |-> SubSeq(s, i + 1, i + k)]
       ELSE [len |-> 0, name |-> <<>>]

\* The leftmost match of _symbol_regex in s: [start, len, name]; start is 0
\* when there is none.
FirstMatch(s) ==
    LET hits == {i \in 1..Len(s) : MatchAt(s, i).len > 0}
    IN IF hits = {} THEN [start |-> 0, len |-> 0, name |-> <<>>]
       ELSE LET i == CHOOSE i \in hits : \A j \in hits : i <= j
            IN [start |-> i, len |-> MatchAt(s, i).len,
                name |-> MatchAt(s, i).name]

(***************************************************************************)
(* _symbol_regex.sub(self._replace_symbol, s), where _replace_symbol       *)
(* returns _symbol_regex.sub(self._replace_symbol, value): `active` holds  *)
(* the names whose _replace_symbol call has not returned.  The table does  *)
(* not change while one entry is being substituted, so a call for a name   *)
(* that is already active repeats the calls that led to it: the recursion  *)
(* never returns, which is the result "diverged" (CPython ends it at its   *)
(* recursion limit).  re.sub on a list raises TypeError.  Results are      *)
(* [st, v].                                                                *)
(***************************************************************************)
RECURSIVE Sub(_, _, _)

\* The value _replace_symbol looks up: '' when the table has no such name.
SymbolValue(tab, symbol) ==
    IF symbol \in DOMAIN tab THEN tab[symbol] ELSE Str(<<>>)

\* PKGBUILD._replace_symbol, for the value it looked up.
ReplaceSymbol(tab, symbol, value, active) ==
    IF value.t # "str" THEN [st |-> "TypeError", v |-> <<>>]
    ELSE IF symbol \in active THEN [st |-> "diverged", v |-> <<>>]
    ELSE Sub(tab, value.v, active \cup {symbol})

\* The text before a match, the replacement, the rest of the string
\* substituted: an exception in the replacement is raised first.
Splice(before, r, after) ==
    IF r.st # "ok" THEN r
    ELSE IF after.st # "ok" THEN after
    ELSE [st |-> "ok", v |-> before \o r.v \o after.v]

\* re.sub from the leftmost match m of s on.
SubFrom(tab, s, active, m, symbol) ==
    IF m.start = 0 THEN [st |-> "ok", v |-> s]
    ELSE Splice(SubSeq(s, 1, m.start - 1),
                ReplaceSymbol(tab, symbol, SymbolValue(tab, symbol), active),
                Sub(tab, SubSeq(s, m.start + m.len, Len(s)), active))

Sub(tab, s, active) ==
    SubFrom(tab, s, active, FirstMatch(s),
            Strip(FirstMatch(s).name, {"{", "}"}))

\* The list comprehension of PKGBUILD._substitute, left to right.
RECURSIVE SubEach(_, _)
SubEach(tab, xs) ==
    IF xs = <<>> THEN [st |-> "ok", v |-> <<>>]
    ELSE Splice(<<>>, [st |-> Sub(tab, Head(xs), {}).st,
                       v |-> <<Sub(tab, Head(xs), {}).v>>],
                SubEach(tab, Tail(xs)))

\* PKGBUILD._substitute, one pass of its for loop: [st, symbols].
Substituted(tab, symbol, r) ==
    [st |-> r.st,
     symbols |-> IF r.st = "ok"
                 THEN [tab EXCEPT ![symbol] = [t |-> tab[symbol].t, v |-> r.v]]
                 ELSE tab]

SubstituteOne(tab, symbol) ==
    Substituted(tab, symbol,
                IF tab[symbol].t = "str" THEN Sub(tab, tab[symbol].v, {})
                ELSE SubEach(tab, tab[symbol].v))

(***************************************************************************)
(* The mapper.                                                             *)
(***************************************************************************)
\* `var in c` for an attribute that holds the parser's own container or,
\* once a symbol of that name has been assigned over it, a str or a list.
Contains(c, own, var) ==
    IF c.t = "str" THEN IsSubstring(var, c.v)
    ELSE IF c.t = "list" THEN InSeq(var, c.v)
    ELSE own

\* PKGBUILD._assign_local, one pass of its for loop: [exc, self].
\* Indexing a str or a list with a str raises TypeError.
AssignOne(obj, syms, var) ==
    LET key == ReplaceAll(var, N.sums, <<>>)
        target == IF var \in DOMAIN var_map THEN var_map[var] ELSE var
    IN IF obj[N.symbols].t # "symbols"
       THEN [exc |-> "TypeError", self |-> obj]
       ELSE IF Contains(obj[N.checksum_fields], InSeq(var, checksum_fields),
                        var)
       THEN IF obj[N.checksums].t # "dict"
            THEN [exc |-> "TypeError", self |-> obj]
            ELSE [exc |-> "none",
                  self |-> [obj EXCEPT ![N.checksums].v =
                                (key :> syms[var]) @@ @]]
       ELSE IF Contains(obj[N.var_map], var \in DOMAIN var_map, var)
       THEN IF obj[N.var_map].t # "var_map"
            THEN [exc |-> "TypeError", self |-> obj]
            ELSE [exc |-> "none", self |-> (target :> syms[var]) @@ obj]
       ELSE [exc |-> "none", self |-> (var :> syms[var]) @@ obj]

\* PKGBUILD._parse, its last statement: float(self.release) when release is
\* set.  [exc, self].
CoerceRelease(obj) ==
    LET r == obj[N.release]
    IN IF ~Truthy(r) THEN [exc |-> "none", self |-> obj]
       ELSE IF r.t # "str" THEN [exc |-> "TypeError", self |-> obj]
       ELSE IF ParseNat(r.v) < 0 THEN [exc |-> "ValueError", self |-> obj]
       ELSE [exc |-> "none",
             self |-> [obj EXCEPT ![N.release] =
                           [t |-> "float", v |-> ParseNat(r.v)]]]

(***************************************************************************)
(* class PacmanPackage                                                     *)
(***************************************************************************)
\* PacmanPackage.__init__: self._symbol_map
symbol_map ==
    (N.pkgname :> N.name) @@ (N.pkgver :> N.version)
    @@ (N.pkgdesc :> N.description) @@ (N.license :> N.licenses)
    @@ (N.arch :> N.architectures) @@ (N.force :> N.is_forced)
    @@ (N.conflict :> N.conflicts) @@ (N.group :> N.groups)
    @@ (N.optdepend :> N.optdepends) @@ (N.makepkgopt :> N.options)
    @@ (N.depend :> N.depends)

\* A variant of the repeatable keys that leaves license out.
arrays_short ==
    <<N.arch, N.replaces, N.group, N.depend, N.optdepend, N.conflict,
      N.provides, N.backup, N.makepkgopt>>

\* PacmanPackage.__init__: self._arrays
arrays ==
    <<N.arch, N.license, N.replaces, N.group, N.depend, N.optdepend,
      N.conflict, N.provides, N.backup, N.makepkgopt>>

\* The name of the archive member that holds the metadata.
PKGINFO == <<".", "P", "K", "G", "I", "N", "F", "O">>

\* PacmanPackage.__init__: the attributes set before the archive is opened.
PacmanPackage_init ==
    [a \in {N.builddate, N.packager, N.is_forced} |-> Str(<<>>)]
    @@ (N.size :> [t |-> "int", v |-> 0])
    @@ (N.files :> List(<<>>))
    @@ (N.symbol_map :> [t |-> "symbol_map", v |-> <<>>])
    @@ (N.arrays :> [t |-> "arrays", v |-> <<>>])
    @@ Package

\* The separator of a .PKGINFO line.
SEP == <<" ", "=", " ">>

\* PacmanPackage._parse, one pass of its for loop: [exc, self].
\* Indexing a str with a str raises TypeError; getattr of a missing
\* attribute and .append on anything but a list raise AttributeError.
ReadLine(obj, line) ==
    LET p == RPartition(Strip(line, Whitespace), SEP)
        var == p[1]
        value == Str(p[3])
        renamed == Contains(obj[N.symbol_map], var \in DOMAIN symbol_map, var)
        real_name == IF var \in DOMAIN symbol_map THEN symbol_map[var]
                     ELSE var
    IN IF line = <<>> \/ Head(line) = "#" \/ Strip(line, Whitespace) = <<>>
       THEN [exc |-> "none", self |-> obj]
       ELSE IF renamed /\ obj[N.symbol_map].t # "symbol_map"
       THEN [exc |-> "TypeError", self |-> obj]
       ELSE LET target == IF renamed THEN real_name ELSE var
            IN IF Contains(obj[N.arrays], InSeq(var, arrays), var)
               THEN IF target \notin DOMAIN obj \/ obj[target].t # "list"
                    THEN [exc |-> "AttributeError", self |-> obj]
                    ELSE [exc |-> "none",
                          self |-> [obj EXCEPT ![target].v =
                                        Append(@, value.v)]]
               ELSE [exc |-> "none", self |-> (target :> value) @@ obj]

\* The literals the post-processing compares with.
TrueLiteral == <<"T", "r", "u", "e">>

UknownPackager ==
    <<"U", "k", "n", "o", "w", "n", " ", "P", "a", "c", "k", "a", "g", "e",
      "r">>

\* int(x) of an attribute: [exc, v].
IntOf(x) ==
    IF x.t = "int" THEN [exc |-> "none", v |-> x.v]
    ELSE IF x.t # "str" THEN [exc |-> "TypeError", v |-> 0]
    ELSE IF ParseNat(x.v) < 0 THEN [exc |-> "ValueError", v |-> 0]
    ELSE [exc |-> "none", v |-> ParseNat(x.v)]

\* PacmanPackage._parse after its for loop, statement by statement.
\* Each takes and gives [exc, self]; a raised exception skips the rest.
CoerceSize(r) ==
    IF r.exc # "none" \/ ~Truthy(r.self[N.size]) THEN r
    ELSE [exc |-> IntOf(r.self[N.size]).exc,
          self |-> [r.self EXCEPT ![N.size] =
                        [t |-> "int", v |-> IntOf(r.self[N.size]).v]]]

CoerceForced(r) ==
    IF r.exc # "none" THEN r
    ELSE [exc |-> "none",
          self |-> [r.self EXCEPT ![N.is_forced] =
                        [t |-> "bool",
                         v |-> @.t = "str" /\ @.v = TrueLiteral]]]

CoerceBuilddate(r) ==
    IF r.exc # "none" \/ ~Truthy(r.self[N.builddate]) THEN r
    ELSE [exc |-> IntOf(r.self[N.builddate]).exc,
          self |-> [r.self EXCEPT ![N.builddate] =
                        [t |-> "datetime",
                         v |-> IntOf(r.self[N.builddate]).v]]]

SplitVersion(r) ==
    IF r.exc # "none" \/ ~Truthy(r.self[N.version]) THEN r
    ELSE IF r.self[N.version].t # "str"
    THEN [exc |-> "AttributeError", self |-> r.self]
    ELSE LET p == RPartition(r.self[N.version].v, <<"-">>)
             n == IntOf(Str(p[3]))
         IN [exc |-> n.exc,
             self |-> [r.self EXCEPT ![N.version] = Str(p[1]),
                                     ![N.release] =
                                         IF n.exc = "none"
                                         THEN [t |-> "int", v |-> n.v]
                                         ELSE Str(p[3])]]

ClearPackager(r) ==
    IF \/ r.exc # "none"
       \/ r.self[N.packager].t # "str"
       \/ r.self[N.packager].v # UknownPackager
    THEN r
    ELSE [exc |-> "none", self |-> [r.self EXCEPT ![N.packager] = NoneVal]]

PostProcess(obj) ==
    ClearPackager(SplitVersion(CoerceBuilddate(CoerceForced(CoerceSize(
        [exc |-> "none", self |-> obj])))))

(***************************************************************************)
(* The constructors, step by step.                                         *)
(***************************************************************************)
Raise(e) ==
    /\ pc' = "raised"
    /\ exc' = e

\* PKGBUILD.__init__ / PacmanPackage.__init__ up to the call of _parse:
\* the defaults, the "nothing to open" check, open(name) or
\* tarfile.open(name), which the environment may refuse, and for the
\* archive extractfile(".PKGINFO") and getnames().
Construct ==
    /\ pc = "new"
    /\ \E opens \in BOOLEAN :
        LET init == IF kind = "PKGBUILD" THEN PKGBUILD_init
                    ELSE PacmanPackage_init
        IN IF ~name_given /\ ~obj_given
           THEN /\ Raise("ValueError")
                /\ self' = init
                /\ UNCHANGED <<stream, should_close>>
           ELSE IF ~obj_given /\ ~opens
           THEN /\ Raise("IOError")
                /\ self' = init
                /\ UNCHANGED <<stream, should_close>>
           ELSE /\ stream' = "open"
                /\ should_close' = ~obj_given
                /\ IF kind = "PKGBUILD"
                   THEN pc' = "parse" /\ self' = init /\ exc' = exc
                   ELSE IF ~member
                   THEN Raise("KeyError") /\ self' = init
                   ELSE /\ pc' = "lines"
                        /\ exc' = exc
                        /\ self' = [init EXCEPT ![N.files] = List(<<PKGINFO>>)]
    /\ UNCHANGED <<kind, name_given, obj_given, member, input, source,
                   in_function, symbols, symbols0, todo>>

\* PKGBUILD._parse: one pass of the `while 1` loop.  The end of the stream
\* and an empty token leave the loop; a newline token and every token read
\* while in_function is set are skipped.
Tokenize ==
    /\ pc = "parse"
    /\ IF input = <<>> \/ Head(input) = <<>>
       THEN /\ pc' = "substitute"
            /\ symbols0' = symbols
            /\ todo' = DOMAIN symbols
            /\ UNCHANGED <<exc, input, in_function, symbols>>
       ELSE IF Head(input) = <<"\n">> \/ in_function
       THEN /\ input' = Tail(input)
            /\ UNCHANGED <<pc, exc, in_function, symbols, symbols0, todo>>
       ELSE LET r == ParseToken(Head(input), Tail(input), in_function,
                                symbols)
            IN /\ input' = r.rest
               /\ in_function' = r.in_function
               /\ symbols' = r.symbols
               /\ IF r.exc = "none" THEN UNCHANGED <<pc, exc>>
                  ELSE Raise(r.exc)
               /\ UNCHANGED <<symbols0, todo>>
    /\ UNCHANGED <<kind, name_given, obj_given, member, stream, should_close,
                   source, self>>

\* PKGBUILD._substitute: one pass of its for loop, over the names of the
\* table in the order the dict yields them, or the end of the loop.
Substitute ==
    /\ pc = "substitute"
    /\ IF todo = {}
       THEN /\ pc' = "assign"
            /\ todo' = DOMAIN symbols
            /\ UNCHANGED <<exc, symbols>>
       ELSE \E symbol \in todo :
            LET r == SubstituteOne(symbols, symbol)
            IN /\ todo' = todo \ {symbol}
               /\ symbols' = r.symbols
               /\ IF r.st = "ok" THEN UNCHANGED <<pc, exc>>
                  ELSE IF r.st = "diverged"
                  THEN pc' = "diverged" /\ exc' = exc
                  ELSE Raise(r.st)
    /\ UNCHANGED <<kind, name_given, obj_given, member, stream, should_close,
                   input, source, in_function, symbols0, self>>

\* PKGBUILD._assign_local: one pass of its for loop.
AssignLocal ==
    /\ pc = "assign"
    /\ \E var \in todo :
        LET r == AssignOne(self, symbols, var)
        IN /\ todo' = todo \ {var}
           /\ self' = r.self
           /\ IF r.exc = "none" THEN UNCHANGED <<pc, exc>> ELSE Raise(r.exc)
    /\ UNCHANGED <<kind, name_given, obj_given, member, stream, should_close,
                   input, source, in_function, symbols, symbols0>>

\* The end of PKGBUILD._parse (the release coercion) and of
\* PKGBUILD.__init__ (fileobj.close() when the constructor opened it).
FinishPKGBUILD ==
    /\ pc = "assign"
    /\ todo = {}
    /\ LET r == CoerceRelease(self)
       IN /\ self' = r.self
          /\ IF r.exc = "none"
             THEN /\ pc' = "done"
                  /\ exc' = exc
                  /\ stream' = IF should_close THEN "closed" ELSE stream
             ELSE Raise(r.exc) /\ stream' = stream
    /\ UNCHANGED <<kind, name_given, obj_given, member, should_close, input,
                   source, in_function, symbols, symbols0, todo>>

\* PacmanPackage._parse: one pass of its for loop over the lines.
ReadPkginfoLine ==
    /\ pc = "lines"
    /\ input # <<>>
    /\ LET r == ReadLine(self, Head(input))
       IN /\ self' = r.self
          /\ input' = Tail(input)
          /\ IF r.exc = "none" THEN UNCHANGED <<pc, exc>> ELSE Raise(r.exc)
    /\ UNCHANGED <<kind, name_given, obj_given, member, stream, should_close,
                   source, in_function, symbols, symbols0, todo>>

\* The end of PacmanPackage._parse (the post-processing) and of
\* PacmanPackage.__init__ (tarfileobj.close() when the constructor opened
\* it).
FinishPacmanPackage ==
    /\ pc = "lines"
    /\ input = <<>>
    /\ LET r == PostProcess(self)
       IN /\ self' = r.self
          /\ IF r.exc = "none"
             THEN /\ pc' = "done"
                  /\ exc' = exc
                  /\ stream' = IF should_close THEN "closed" ELSE stream
             ELSE Raise(r.exc) /\ stream' = stream
    /\ UNCHANGED <<kind, name_given, obj_given, member, should_close, input,
                   source, in_function, symbols, symbols0, todo>>

(***************************************************************************)
(* Inputs.                                                                 *)
(***************************************************************************)
MaxTokens == 4

\* Raw tokens, as shlex hands them to PKGBUILD._parse.
Tokens ==
    {<<"d", "=", "(", "x">>,          \* d=(x    opens an array
     <<"d", "=", "(">>,               \* d=(     opens an array, no element
     <<"y">>,                         \* y
     <<"z", ")">>,                    \* z)      closes an array
     <<")">>,                         \* )       closes an array, no element
     <<"d", "=", "(", "x", ")">>,     \* d=(x)   a whole array
     <<"{">>,
     <<"}">>,
     <<"a", "=", "x">>,               \* a=x
     <<"b", "=", "$", "a">>,          \* b=$a
     <<"i", "=">>,                    \* i=      nothing after the "="
     <<>>}                            \* the empty token of ""

InitCommon ==
    /\ pc = "new"
    /\ exc = "none"
    /\ should_close = FALSE
    /\ in_function = FALSE
    /\ symbols = <<>>
    /\ symbols0 = <<>>
    /\ todo = {}
    /\ self = <<>>
    /\ input = source
    /\ stream = IF obj_given THEN "open" ELSE "unopened"

\* PKGBUILD(name) on a recipe of at most MaxTokens raw tokens.
InitPKGBUILD ==
    /\ kind = "PKGBUILD"
    /\ name_given = TRUE
    /\ obj_given = FALSE
    /\ member = FALSE
    /\ \E k \in 0..MaxTokens : source \in [1..k -> Tokens]
    /\ InitCommon

NextPKGBUILD ==
    \/ Construct
    \/ Tokenize
    \/ Substitute
    \/ AssignLocal
    \/ FinishPKGBUILD

SpecPKGBUILD == InitPKGBUILD /\ [][NextPKGBUILD]_vars

\* PacmanPackage(name) on an archive whose .PKGINFO has at most MaxLines
\* lines.
MaxLines == 3

Line(key, value) == key \o SEP \o value

UnknownPackager ==
    <<"U", "n", "k", "n", "o", "w", "n", " ", "P", "a", "c", "k", "a", "g", "e",
      "r">>

Lines ==
    {Line(N.license, <<"A">>),
     Line(N.license, <<"B">>),
     Line(N.licenses, <<"B">>),
     Line(N.url, <<"A">>),
     Line(N.url, <<"B">>),
     Line(N.url, Line(<<"A">>, <<"B">>)),       \* url = A = B
     Line(N.pkgname, <<"A">>),
     Line(N.name, <<"B">>),
     Line(N.pkgver, <<"A", "-", "1">>),
     Line(N.force, TrueLiteral),
     Line(N.size, <<"1", "2">>),
     Line(N.packager, <<"A">>),
     Line(N.packager, UnknownPackager),
     Line(N.packager, UknownPackager),
     Line(N.arrays, <<"A">>),
     <<"#", "A">>}                              \* a comment

InitPacmanPackage ==
    /\ kind = "PacmanPackage"
    /\ name_given = TRUE
    /\ obj_given = FALSE
    /\ member = TRUE
    /\ \E k \in 0..MaxLines : source \in [1..k -> Lines]
    /\ InitCommon

NextPacmanPackage ==
    \/ Construct
    \/ ReadPkginfoLine
    \/ FinishPacmanPackage

SpecPacmanPackage == InitPacmanPackage /\ [][NextPacmanPackage]_vars

\* Both constructors, with every combination of arguments, on inputs of at
\* most MaxInput tokens or lines.
MaxInput == 2

Init ==
    /\ kind \in {"PKGBUILD", "PacmanPackage"}
    /\ name_given \in BOOLEAN
    /\ obj_given \in BOOLEAN
    /\ member \in IF kind = "PKGBUILD" THEN {FALSE} ELSE BOOLEAN
    /\ \E k \in 0..MaxInput :
          source \in [1..k -> IF kind = "PKGBUILD" THEN Tokens ELSE Lines]
    /\ InitCommon

Next ==
    \/ Construct
    \/ Tokenize
    \/ Substitute
    \/ AssignLocal
    \/ FinishPKGBUILD
    \/ ReadPkginfoLine
    \/ FinishPacmanPackage

Spec == Init /\ [][Next]_vars

\* The substitution pass alone, PKGBUILD._substitute, entered with a symbol
\* table over SubstNames whose values are drawn from SubstValues.
SubstNames == {<<"a">>, <<"b">>, <<"c">>}

SubstValues ==
    {Str(<<"x">>),
     Str(<<"$">>),
     Str(<<"$", "a">>),
     Str(<<"$", "b">>),
     Str(<<"$", "{", "c", "}">>),
     Str(<<"$", "a", "-", "1">>),
     Str(<<"$", "{", "a", "}", "b">>),
     Str(<<"$", "{", "m", "}", "x">>),
     Str(<<"$", "a", "b">>),
     List(<<>>),
     List(<<<<"x">>, <<"$", "a">>>>),
     List(<<<<"$", "{", "b", "}", "-", "$", "c">>>>)}

InitParsed ==
    /\ kind = "PKGBUILD"
    /\ name_given = TRUE
    /\ obj_given = FALSE
    /\ member = FALSE
    /\ stream = "open"
    /\ should_close = TRUE
    /\ exc = "none"
    /\ input = <<>>
    /\ source = <<>>
    /\ in_function = FALSE
    /\ symbols0 = symbols
    /\ todo = DOMAIN symbols
    /\ self = PKGBUILD_init

InitSubst ==
    /\ \E S \in SUBSET SubstNames : symbols \in [S -> SubstValues]
    /\ pc = "substitute"
    /\ InitParsed

NextSubst == Substitute

SpecSubst == InitSubst /\ [][NextSubst]_vars

\* The mapper alone, PKGBUILD._assign_local and the end of the
\* constructor, entered with a substituted table of at most MaxSyms symbols
\* over MapNames.
MaxSyms == 3

MapNames ==
    {N.pkgname, N.name, N.pkgrel, N.install, N.md5sums, N.sha256sums,
     N.checksums, N.checksum_fields, N.symbols, N.var_map}

MapValues == {Str(<<"x">>), Str(<<"1">>), List(<<<<"y">>, <<"x">>>>)}

InitMap ==
    /\ \E S \in SUBSET MapNames :
          /\ Cardinality(S) <= MaxSyms
          /\ symbols \in [S -> MapValues]
    /\ pc = "assign"
    /\ InitParsed

NextMap ==
    \/ AssignLocal
    \/ FinishPKGBUILD

SpecMap == InitMap /\ [][NextMap]_vars

(***************************************************************************)
(* Properties of the recipe tokenizer, checked under SpecPKGBUILD.         *)
(***************************************************************************)
\* Equality of two values, and of two records field by field: values of
\* different types are different.
SameItems(x, y) ==
    /\ DOMAIN x = DOMAIN y
    /\ \A k \in DOMAIN x : x[k].t = y[k].t /\ x[k].v = y[k].v

Same(x, y) ==
    /\ x.t = y.t
    /\ IF x.t = "dict" THEN SameItems(x.v, y.v) ELSE x.v = y.v

SameFields(a, b) ==
    /\ DOMAIN a = DOMAIN b
    /\ \A k \in DOMAIN a : Same(a[k], b[k])

\* A raw token that opens an array literal and does not close it, and one
\* that closes it.
Opens(token) ==
    /\ IsAssign(token)
    /\ Find(token, <<"=", "(">>) > 0
    /\ Last(token) # ")"

Closes(token) == token # <<>> /\ Last(token) = ")"

NonEmpty(s) == IF s = <<>> THEN <<>> ELSE <<s>>

\* The elements written between the "(" of src[1] and the ")" of src[j].
ElementsOf(src, j) ==
    NonEmpty(Partition(src[1], <<"=", "(">>)[3])
    \o [i \in 1..(j - 2) |-> src[i + 1]]
    \o NonEmpty(SubSeq(src[j], 1, Len(src[j]) - 1))

NameOf(token) == Partition(token, <<"=">>)[1]

\* C2: when the recipe starts with a token that opens an array literal and
\* token j is the first later token that ends in ")", then once tokens 1..j
\* have been read the symbol table holds under the array's name the
\* sequence of exactly the elements written between "(" and ")", in source
\* order, wherever "(" and ")" fall relative to the first and last element.
C2_ArrayElementsExact ==
    \A j \in 2..Len(source) :
        (/\ Opens(source[1])
         /\ Closes(source[j])
         /\ \A i \in 2..(j - 1) : source[i] # <<>> /\ ~Closes(source[i])
         /\ pc \in {"parse", "raised"}
         /\ Len(input) = Len(source) - j)
        => /\ pc = "parse"
           /\ NameOf(source[1]) \in DOMAIN symbols
           /\ Same(symbols[NameOf(source[1])], List(ElementsOf(source, j)))

\* C7: function-body suppression is a toggle.  When the recipe starts with
\* a standalone "{" and token j is the first later standalone "}", the
\* tokens between them are discarded (so b, assigned only between them, is
\* never in the table), and the "}" leaves suppression: once the assignment
\* a=x that directly follows the "}" has been read, a is in the table.
C7_FunctionBodyEnds ==
    \A j \in 2..Len(source) :
        (/\ source[1] = <<"{">>
         /\ source[j] = <<"}">>
         /\ \A i \in 2..(j - 1) : source[i] \notin {<<"}">>, <<>>})
        => /\ (\A i \in (j + 1)..Len(source) : NameOf(source[i]) # <<"b">>)
              => <<"b">> \notin DOMAIN symbols
           /\ (/\ j < Len(source)
               /\ source[j + 1] = <<"a", "=", "x">>
               /\ pc # "new"
               /\ Len(input) < Len(source) - j)
              => <<"a">> \in DOMAIN symbols

\* C9: an assignment-shaped token outside a function body is recorded in
\* the symbol table, also when nothing follows its "=": when the recipe
\* starts with such a token (one that is whole, not the opening of a split
\* array), then once it has been read the parse has not aborted and the
\* table holds its name, as a sequence when the value is wrapped in "(...)"
\* and as a scalar otherwise.
C9_AssignmentRecorded ==
    (/\ source # <<>>
     /\ IsAssign(Head(source))
     /\ ~Opens(Head(source))
     /\ pc \in {"parse", "raised"}
     /\ Len(input) = Len(source) - 1)
    => /\ pc = "parse"
       /\ NameOf(Head(source)) \in DOMAIN symbols
       /\ symbols[NameOf(Head(source))].t =
              IF Find(Head(source), <<"=", "(">>) > 0 /\ Closes(Head(source))
              THEN "list" ELSE "str"

(***************************************************************************)
(* Properties of the substitution pass, checked under SpecSubst.           *)
(***************************************************************************)
\* The names referenced by a string and by a value of the table.
RECURSIVE RefsOf(_)
RefsOf(s) ==
    IF FirstMatch(s).start = 0 THEN {}
    ELSE {Strip(FirstMatch(s).name, {"{", "}"})}
         \cup RefsOf(SubSeq(s, FirstMatch(s).start + FirstMatch(s).len,
                            Len(s)))

RefsOfValue(value) ==
    IF value.t = "str" THEN RefsOf(value.v)
    ELSE UNION {RefsOf(value.v[i]) : i \in 1..Len(value.v)}

\* The reference graph of a table: symbol -> symbols named in its value.
Successors(tab, S) ==
    UNION {RefsOfValue(tab[n]) \cap DOMAIN tab : n \in S}

RECURSIVE Reach(_, _)
Reach(tab, S) ==
    IF Successors(tab, S) \subseteq S THEN S
    ELSE Reach(tab, S \cup Successors(tab, S))

Cyclic(tab) ==
    \E n \in DOMAIN tab : n \in Reach(tab, Successors(tab, {n}))

\* The full expansion of a string over a table without cycles: every
\* reference replaced by the full expansion of the value of the symbol it
\* names, a reference to a name outside the table by the empty string.
RECURSIVE Expand(_, _)
ExpandFrom(tab, s, m, symbol) ==
    IF m.start = 0 THEN s
    ELSE SubSeq(s, 1, m.start - 1)
         \o (IF symbol \in DOMAIN tab /\ tab[symbol].t = "str"
             THEN Expand(tab, tab[symbol].v)
             ELSE <<>>)
         \o Expand(tab, SubSeq(s, m.start + m.len, Len(s)))

Expand(tab, s) ==
    ExpandFrom(tab, s, FirstMatch(s), Strip(FirstMatch(s).name, {"{", "}"}))

ExpandValue(tab, value) ==
    IF value.t = "str" THEN Str(Expand(tab, value.v))
    ELSE List([i \in 1..Len(value.v) |-> Expand(tab, value.v[i])])

\* C1: for a table without reference cycles the substitution pass runs to
\* its end without raising, and after it every symbol holds the full
\* expansion of its original value: every reference in a scalar and in
\* every element of a sequence replaced by the fully expanded value of the
\* symbol it names, a reference to a missing name by the empty string.
C1_Substituted ==
    ~Cyclic(symbols0)
    => /\ pc # "raised"
       /\ pc = "assign"
          => \A n \in DOMAIN symbols :
                Same(symbols[n], ExpandValue(symbols0, symbols0[n]))

\* C8: the substitution pass terminates for a table whose reference graph
\* has no cycle (it never recurses without bound), and for a table in which
\* some symbol refers to itself directly or transitively it does not
\* terminate: it neither runs to its end nor stops with an error.
C8_TerminatesIffAcyclic ==
    /\ ~Cyclic(symbols0) => pc # "diverged"
    /\ Cyclic(symbols0) => pc \notin {"assign", "raised"}

(***************************************************************************)
(* Properties of the recipe mapper, checked under SpecMap.                 *)
(***************************************************************************)
\* The checksums key of each checksum symbol.
ChecksumKey ==
    (N.md5sums :> N.md5) @@ (N.sha1sums :> N.sha1)
    @@ (N.sha256sums :> N.sha256) @@ (N.sha384sums :> N.sha384)
    @@ (N.sha512sums :> N.sha512)

\* C3: after a recipe parse every assigned checksum symbol is the value of
\* checksums under its key without the "sums" suffix and is not a
\* top-level field of the record, and the key of every checksum symbol that
\* was not assigned still holds the empty sequence.
C3_ChecksumsRouted ==
    pc = "done"
    => \A f \in DOMAIN ChecksumKey :
          /\ f \notin DOMAIN self
          /\ self[N.checksums].t = "dict"
          /\ ChecksumKey[f] \in DOMAIN self[N.checksums].v
          /\ Same(self[N.checksums].v[ChecksumKey[f]],
                  IF f \in DOMAIN symbols THEN symbols[f] ELSE List(<<>>))

\* C3, scoped: after a recipe parse of a table that assigns neither
\* checksums nor _checksum_fields, every assigned checksum symbol is the
\* value of checksums under its key without the "sums" suffix and is not a
\* top-level field, and the keys of the others hold the empty sequence.
C3_ChecksumsRoutedScoped ==
    DOMAIN symbols \cap {N.checksums, N.checksum_fields} = {}
    => C3_ChecksumsRouted

\* A parse that has routed two checksum symbols and stored another symbol.
C3_Witness ==
    /\ pc = "done"
    /\ DOMAIN symbols \cap {N.checksums, N.checksum_fields} = {}
    /\ {N.md5sums, N.sha256sums, N.pkgname} \subseteq DOMAIN symbols
    /\ Same(self[N.checksums].v[N.md5], symbols[N.md5sums])
    /\ ~Same(self[N.checksums].v[N.md5], self[N.checksums].v[N.sha256])
    /\ Same(self[N.checksums].v[N.sha1], List(<<>>))

\* The whole mapping of a table in one given order of its names, followed
\* by the constructor's coercion of release: [exc, self].
RECURSIVE MapInOrder(_, _, _)
MapStep(r, tab, order) ==
    IF r.exc # "none" THEN r ELSE MapInOrder(r.self, tab, Tail(order))

MapInOrder(obj, tab, order) ==
    IF order = <<>> THEN CoerceRelease(obj)
    ELSE MapStep(AssignOne(obj, tab, Head(order)), tab, order)

\* One fixed order of the names of a set.
OrderOf(S) ==
    CHOOSE q \in [1..Cardinality(S) -> S] :
        \A n \in S : \E i \in DOMAIN q : q[i] = n

\* C10: the record the mapper produces does not depend on the order in
\* which the names of the table are iterated: a run that ends in any order
\* leaves the field values that the run in one fixed order leaves.
C10_OrderIndependent ==
    pc = "done"
    => /\ MapInOrder(PKGBUILD_init, symbols,
                     OrderOf(DOMAIN symbols)).exc = "none"
       /\ SameFields(
              MapInOrder(PKGBUILD_init, symbols, OrderOf(DOMAIN symbols)).self,
              self)

\* The field a symbol is stored to: the rename of the recipe mapper.
FieldOf(var) ==
    IF var = N.pkgname THEN N.name
    ELSE IF var = N.pkgver THEN N.version
    ELSE IF var = N.pkgdesc THEN N.description
    ELSE IF var = N.pkgrel THEN N.release
    ELSE IF var = N.source THEN N.sources
    ELSE IF var = N.arch THEN N.architectures
    ELSE IF var = N.license THEN N.licenses
    ELSE var

\* No two symbols of the table are stored to the same field, and none is
\* named after a table the mapper itself reads.
Separate(tab) ==
    /\ \A v, w \in DOMAIN tab \ DOMAIN ChecksumKey :
          v # w => FieldOf(v) # FieldOf(w)
    /\ N.checksums \in DOMAIN tab => DOMAIN tab \cap DOMAIN ChecksumKey = {}
    /\ DOMAIN tab \cap {N.symbols, N.var_map, N.checksum_fields} = {}

\* C10, scoped: for a table in which no two symbols are stored to the same
\* field and none is named _symbols, _var_map or _checksum_fields, a run of
\* the mapper in any order leaves the field values that the run in one
\* fixed order leaves.
C10_OrderIndependentScoped ==
    Separate(symbols) => C10_OrderIndependent

\* A finished mapping of a full table with a renamed symbol, a checksum
\* symbol and one more, none of them sharing a field.
C10_Witness ==
    /\ pc = "done"
    /\ Separate(symbols)
    /\ Cardinality(DOMAIN symbols) = MaxSyms
    /\ {N.pkgname, N.md5sums} \subseteq DOMAIN symbols
    /\ Same(self[N.name], symbols[N.pkgname])
    /\ ~Same(self[N.name], PKGBUILD_init[N.name])

(***************************************************************************)
(* Properties of both constructors, checked under Spec.                    *)
(***************************************************************************)
\* C4: when a constructor returns or raises, a file or archive it opened
\* itself is closed, and one the caller passed in is still open.
C4_ResourceClosed ==
    pc \in {"done", "raised"}
    => IF obj_given THEN stream = "open" ELSE stream # "open"

(***************************************************************************)
(* Properties of the flat record reader, checked under SpecPacmanPackage.  *)
(***************************************************************************)
\* The lines of the stream that are records, and the key and the value of
\* a record: the text before and after its last " = ".
IsRecord(line) == line # <<>> /\ Head(line) # "#"

Records == SelectSeq(source, IsRecord)

KeyOf(line) == RPartition(line, SEP)[1]

ValueOf(line) == RPartition(line, SEP)[3]

Keys == {KeyOf(Records[i]) : i \in DOMAIN Records}

HasKey(line, key) == KeyOf(line) = key

\* The values of the lines with a key, in line order.
ValuesOf(key) ==
    [i \in DOMAIN SelectSeq(Records, LAMBDA line : HasKey(line, key)) |->
        ValueOf(SelectSeq(Records, LAMBDA line : HasKey(line, key))[i])]

Repeatable ==
    {N.arch, N.license, N.replaces, N.group, N.depend, N.optdepend,
     N.conflict, N.provides, N.backup, N.makepkgopt}

\* The field a key is stored to: the rename of the flat record reader.
TargetOf(key) ==
    IF key = N.pkgname THEN N.name
    ELSE IF key = N.pkgver THEN N.version
    ELSE IF key = N.pkgdesc THEN N.description
    ELSE IF key = N.license THEN N.licenses
    ELSE IF key = N.arch THEN N.architectures
    ELSE IF key = N.force THEN N.is_forced
    ELSE IF key = N.conflict THEN N.conflicts
    ELSE IF key = N.group THEN N.groups
    ELSE IF key = N.optdepend THEN N.optdepends
    ELSE IF key = N.makepkgopt THEN N.options
    ELSE IF key = N.depend THEN N.depends
    ELSE key

\* The record before any line is read; is_forced counts as defaulted when
\* it is the empty string or false.
Defaulted(field) ==
    \/ Same(self[field], PacmanPackage_init[field])
    \/ field = N.files /\ Same(self[field], List(<<PKGINFO>>))
    \/ field = N.is_forced /\ Same(self[field], [t |-> "bool", v |-> FALSE])

Stored(key) ==
    /\ TargetOf(key) \in DOMAIN self
    /\ Same(self[TargetOf(key)],
            IF key \in Repeatable THEN List(ValuesOf(key))
            ELSE Str(Last(ValuesOf(key))))

\* C5: in the record read from any sequence of "key = value" lines, the
\* target of a repeatable key is the sequence of the values of that key in
\* line order, the target of any other key is the value of the last line
\* with that key, and a field whose key never occurs has its default.
C5_FlatRecord ==
    pc = "done"
    => /\ \A key \in Keys : Stored(key)
       /\ \A field \in DOMAIN PacmanPackage_init :
             field \notin {TargetOf(key) : key \in Keys} => Defaulted(field)

\* The fields the post-processing rewrites.
PostProcessed ==
    {N.size, N.is_forced, N.builddate, N.version, N.release, N.packager}

\* No two keys of the stream are stored to the same field, and none is
\* named after a table the reader itself reads.
SeparateKeys ==
    /\ \A k1, k2 \in Keys : k1 # k2 => TargetOf(k1) # TargetOf(k2)
    /\ Keys \cap {N.symbol_map, N.arrays} = {}

\* C5, scoped: in the record read from a sequence of "key = value" lines
\* in which no two keys are stored to the same field and no key is
\* _symbol_map or _arrays, the target of a repeatable key is the sequence
\* of its values in line order, the target of any other key that the
\* post-processing does not rewrite is the value of the last line with
\* that key, and a field that no key is stored to and the post-processing
\* does not rewrite has its default.
C5_FlatRecordScoped ==
    (pc = "done" /\ SeparateKeys)
    => /\ \A key \in Keys : TargetOf(key) \notin PostProcessed => Stored(key)
       /\ \A field \in DOMAIN PacmanPackage_init \ PostProcessed :
             field \notin {TargetOf(key) : key \in Keys} => Defaulted(field)

\* A record read from two license lines and a url line.
C5_Witness ==
    /\ pc = "done"
    /\ SeparateKeys
    /\ ValuesOf(N.license) = <<<<"A">>, <<"B">>>>
    /\ Same(self[N.licenses], List(<<<<"A">>, <<"B">>>>))
    /\ N.url \in Keys
    /\ Same(self[N.url], Str(Last(ValuesOf(N.url))))
    /\ Same(self[N.depends], List(<<>>))

\* C6: in the record read from a stream whose last packager line has the
\* value "Unknown Packager" the packager field is absent or empty, and any
\* other packager value is kept unchanged.
C6_UnknownPackagerCleared ==
    (pc = "done" /\ N.packager \in Keys)
    => IF Last(ValuesOf(N.packager)) = UnknownPackager
       THEN Same(self[N.packager], NoneVal)
            \/ Same(self[N.packager], Str(<<>>))
       ELSE Same(self[N.packager], Str(Last(ValuesOf(N.packager))))

====
